---------------------------- MODULE Spec2Model ----------------------------
(***************************************************************************)
(* Moon / Earth / Sun model: the astronomical calculations                 *)
(* (AstronomicalCalculations) and the Scene that projects them into a      *)
(* selectable coordinate system.                                           *)
(*                                                                         *)
(* Numbers.  JavaScript numbers are IEEE-754 doubles.  A JavaScript number *)
(* x is modelled by the integer nearest to x * FP (binary fixed point, ten *)
(* fractional bits), and every arithmetic operation rounds its exact       *)
(* result to the nearest such integer, as a double operation rounds to the *)
(* nearest double.  NaN is a value of its own, outside the range of the    *)
(* numbers, that no arithmetic is done on.  The only quantities kept        *)
(* exact are those of the calendar arithmetic of dateToJulianDay, which    *)
(* doubles represent to better than a microsecond: a Julian Day is the     *)
(* pair (whole days, seconds of the day), see dateToJulianDay.             *)
(***************************************************************************)
EXTENDS Integers, Sequences, FiniteSets, TLC

\* the resolution: 10 fractional bits
FP == 2 ^ 10

Abs(n) == IF n >= 0 THEN n ELSE -n
Sgn(n) == IF n > 0 THEN 1 ELSE IF n < 0 THEN -1 ELSE 0
Max2(a, b) == IF a >= b THEN a ELSE b
Min2(a, b) == IF a <= b THEN a ELSE b

\* n / d rounded to the nearest integer, halves away from zero (d > 0)
Round(n, d) == IF n >= 0 THEN (n + d \div 2) \div d ELSE -((-n + d \div 2) \div d)

\* the number of the model for the integer n
Num(n) == n * FP

\* a * b: the larger factor is split so that no partial product overflows
Mul(a, b) ==
    LET A == Max2(Abs(a), Abs(b))
        B == Min2(Abs(a), Abs(b))
    IN  Sgn(a) * Sgn(b) * ((A \div FP) * B + Round((A % FP) * B, FP))

\* a / b for b # 0
Div(a, b) == Sgn(a) * Sgn(b) * Round(Abs(a) * FP, Abs(b))

\* x * 0.d1d2d3..., the decimal fraction given in groups of three digits
RECURSIVE Frac(_, _)
Frac(x, ds) == IF ds = <<>> THEN 0 ELSE Round(x * Head(ds) + Frac(x, Tail(ds)), 1000)

\* x * c for the decimal literal c = c0.d1d2d3... (c0 >= 0)
Times(x, c0, ds) == x * c0 + Frac(x, ds)

\* the decimal literal c0.d1d2d3...
Dec(c0, ds) == Times(FP, c0, ds)

\* Math.PI and the multiples of it the code writes
Pi == Dec(3, <<141, 593>>)
TwoPi == Dec(6, <<283, 185>>)
HalfPi == Dec(1, <<570, 796>>)

\* x * Math.PI / 180
DegToRad(x) == Round(Times(x, 3, <<141, 593>>), 180)

\* x * 180 / Math.PI
RadToDeg(x) == Div(x * 180, Pi)

\* r * r <= a and (r + 1/2)^2 <= a for numbers r, a >= 0, without overflow
SqLeq(r, a, half) ==
    LET rh == r \div FP
        rl == r % FP
        t  == ((rl * rl) % FP) + (IF half THEN r + 1 ELSE 0)
        I  == rh * rh * FP + 2 * rh * rl + ((rl * rl) \div FP) + (t \div FP)
    IN  I < a \/ (I = a /\ (t % FP) = 0)

RECURSIVE SqrtSearch(_, _, _)
SqrtSearch(a, lo, hi) ==
    IF hi - lo <= 1 THEN lo
    ELSE LET mid == (lo + hi) \div 2
         IN  IF SqLeq(mid, a, FALSE) THEN SqrtSearch(a, mid, hi) ELSE SqrtSearch(a, lo, mid)

\* Math.sqrt(a) for a >= 0, correctly rounded
Sqrt(a) ==
    LET r == SqrtSearch(a, 0, Min2(Max2(a, FP), 1400 * FP) + 1)
    IN  IF SqLeq(r, a, TRUE) THEN r + 1 ELSE r

\* NaN, the result of Math.acos and Math.asin outside [-1, 1]
NaN == -2147483647
IsNaN(x) == x = NaN

\* sin t and cos t for 0 <= t <= HalfPi, by their Taylor series in Horner form
SinSeries(t) ==
    LET t2 == Mul(t, t)
        u4 == FP - Round(t2, 72)
        u3 == FP - Round(Mul(t2, u4), 42)
        u2 == FP - Round(Mul(t2, u3), 20)
        u1 == FP - Round(Mul(t2, u2), 6)
    IN  Mul(t, u1)

CosSeries(t) ==
    LET t2 == Mul(t, t)
        u4 == FP - Round(t2, 56)
        u3 == FP - Round(Mul(t2, u4), 30)
        u2 == FP - Round(Mul(t2, u3), 12)
    IN  FP - Round(Mul(t2, u2), 2)

SinQ(t) == Min2(FP, IF 2 * t <= HalfPi THEN SinSeries(t) ELSE CosSeries(HalfPi - t))
CosQ(t) == Min2(FP, IF 2 * t <= HalfPi THEN CosSeries(t) ELSE SinSeries(HalfPi - t))

\* the angle of [0, HalfPi] with the sine and cosine of r, up to sign, for
\* 0 <= r < TwoPi
Fold(r) ==
    IF r <= HalfPi THEN r
    ELSE IF r <= Pi THEN Pi - r
    ELSE IF r <= Pi + HalfPi THEN r - Pi
    ELSE Min2(HalfPi, TwoPi - r)

\* Math.sin(x), Math.cos(x)
Sin(x) == (IF x % TwoPi <= Pi THEN 1 ELSE -1) * SinQ(Fold(x % TwoPi))
Cos(x) ==
    (IF x % TwoPi <= HalfPi \/ x % TwoPi > Pi + HalfPi THEN 1 ELSE -1) * CosQ(Fold(x % TwoPi))

\* the least angle of [lo, hi] whose sine is at least v, and the greatest whose
\* sine is at most v, for 0 <= v <= 1
RECURSIVE AsinFirst(_, _, _)
AsinFirst(v, lo, hi) ==
    IF lo >= hi THEN hi
    ELSE LET mid == (lo + hi) \div 2
         IN  IF SinQ(mid) >= v THEN AsinFirst(v, lo, mid) ELSE AsinFirst(v, mid + 1, hi)

RECURSIVE AsinLast(_, _, _)
AsinLast(v, lo, hi) ==
    IF lo >= hi THEN lo
    ELSE LET mid == (lo + hi + 1) \div 2
         IN  IF SinQ(mid) <= v THEN AsinLast(v, mid, hi) ELSE AsinLast(v, lo, mid - 1)

\* the angle of [0, HalfPi] whose sine is v: the middle of the angles whose sine
\* rounds to v
AsinQ(v) ==
    IF v >= FP THEN HalfPi
    ELSE (AsinFirst(v, 0, HalfPi) + AsinLast(v, 0, HalfPi)) \div 2

\* Math.asin(v), Math.acos(v): NaN outside [-1, 1]
Asin(v) == IF IsNaN(v) \/ Abs(v) > FP THEN NaN ELSE Sgn(v) * AsinQ(Abs(v))
Acos(v) ==
    IF IsNaN(v) \/ Abs(v) > FP THEN NaN
    ELSE IF v >= 0 THEN HalfPi - AsinQ(v)
    ELSE Pi - (HalfPi - AsinQ(-v))

\* Math.atan2(y, x); Math.atan2(0, 0) is 0
Atan2(y, x) ==
    LET r == Sqrt(Mul(x, x) + Mul(y, y))
        c == Div(x, r)
        a == Acos(Max2(-FP, Min2(FP, c)))
    IN  IF r = 0 THEN 0 ELSE IF y >= 0 THEN a ELSE -a

(***************************************************************************)
(* THREE.Vector3: a record of three numbers.                               *)
(***************************************************************************)
Vector3(x, y, z) == [x |-> x, y |-> y, z |-> z]
Zero3 == Vector3(0, 0, 0)

SubVectors(a, b) == Vector3(a.x - b.x, a.y - b.y, a.z - b.z)
AddVectors(a, b) == Vector3(a.x + b.x, a.y + b.y, a.z + b.z)
MultiplyScalar(v, s) == Vector3(Mul(v.x, s), Mul(v.y, s), Mul(v.z, s))
Dot(a, b) == Mul(a.x, b.x) + Mul(a.y, b.y) + Mul(a.z, b.z)
Length(v) == Sqrt(Mul(v.x, v.x) + Mul(v.y, v.y) + Mul(v.z, v.z))

\* divideScalar(s)
DivideScalar(v, s) == Vector3(Div(v.x, s), Div(v.y, s), Div(v.z, s))

\* x || 1
OrOne(x) == IF x = 0 THEN FP ELSE x

\* normalize(): divideScalar(length() || 1), so the zero vector stays zero
Normalize(v) == DivideScalar(v, OrOne(Length(v)))

\* applyMatrix4(new Matrix4().makeRotationX(theta))
RotateX(v, theta) ==
    Vector3(v.x,
            Mul(Cos(theta), v.y) - Mul(Sin(theta), v.z),
            Mul(Sin(theta), v.y) + Mul(Cos(theta), v.z))

\* a % b of JavaScript for b > 0: the remainder has the sign of a
JsMod(a, b) == Sgn(a) * (Abs(a) % b)

(***************************************************************************)
(* Date: the time value is the pair (day, ms), the days since 1970-01-01   *)
(* UTC and the milliseconds of that day.  The getUTC* accessors are the    *)
(* proleptic Gregorian calendar.                                           *)
(***************************************************************************)
MsPerDay == 24 * 60 * 60 * 1000

Date(day, ms) == [day |-> day, ms |-> ms]

\* year, month (1..12) and day of the month of a day number: the day doe of
\* the 400-year era, the year yoe of the era, the day doy of the year that
\* starts in March and its month mp
CivilOfMonth(era, yoe, doy, mp) ==
    [year  |-> yoe + era * 400 + (IF mp >= 10 THEN 1 ELSE 0),
     month |-> IF mp < 10 THEN mp + 3 ELSE mp - 9,
     date  |-> doy - ((153 * mp + 2) \div 5) + 1]
CivilOfDay(era, yoe, doy) == CivilOfMonth(era, yoe, doy, (5 * doy + 2) \div 153)
CivilOfYear(era, doe, yoe) ==
    CivilOfDay(era, yoe, doe - (365 * yoe + (yoe \div 4) - (yoe \div 100)))
CivilOfEra(era, doe) ==
    CivilOfYear(era, doe,
        (doe - (doe \div 1460) + (doe \div 36524) - (doe \div 146096)) \div 365)
Civil(day) == CivilOfEra((day + 719468) \div 146097, (day + 719468) % 146097)

getUTCFullYear(d) == Civil(d.day).year
getUTCMonth(d) == Civil(d.day).month - 1
getUTCDate(d) == Civil(d.day).date
getUTCHours(d) == d.ms \div 3600000
getUTCMinutes(d) == (d.ms \div 60000) % 60
getUTCSeconds(d) == (d.ms \div 1000) % 60
getUTCMilliseconds(d) == d.ms % 1000

\* t1 < t2 on Dates
DateLess(t1, t2) == t1.day < t2.day \/ (t1.day = t2.day /\ t1.ms < t2.ms)

(***************************************************************************)
(* AstronomicalCalculations                                                *)
(***************************************************************************)
EARTH_RADIUS == Dec(6, <<371>>)
EARTH_SUN_DISTANCE == Dec(234, <<700>>)
MOON_EARTH_DISTANCE == Dec(60, <<270>>)

\* new Date('2000-01-01T12:00:00Z')
J2000 == Date(10957, 12 * 3600000)

\* dateToJulianDay.  The result days + secs / 86400 is kept as the pair: the
\* whole part is an integer below 2^53 and exact in a double, and the three
\* fractions (hours - 12) / 24, minutes / 1440 and seconds / 86400 are added
\* with an error below 1e-9 day, far less than the 1 / 86400 day that
\* separates two values of secs.
JulianDayNumber(day, m, y) ==
    day + ((153 * m + 2) \div 5) + 365 * y + (y \div 4) - (y \div 100) + (y \div 400) - 32045

JulianDayOf(date, a) ==
    [days |-> JulianDayNumber(getUTCDate(date),
                              (getUTCMonth(date) + 1) + 12 * a - 3,
                              getUTCFullYear(date) + 4800 - a),
     secs |-> (getUTCHours(date) - 12) * 3600 + getUTCMinutes(date) * 60
              + getUTCSeconds(date)]

dateToJulianDay(date) == JulianDayOf(date, (14 - (getUTCMonth(date) + 1)) \div 12)

\* jd1 < jd2 on Julian Days; secs lies in -43200 .. 43199, so the order of the
\* values is the order of the pairs
JdLess(jd1, jd2) == jd1.days < jd2.days \/ (jd1.days = jd2.days /\ jd1.secs < jd2.secs)

\* jd - j2000Jd, as a number
JdMinus(jd, j2000Jd) ==
    (jd.days - j2000Jd.days) * FP + Round((jd.secs - j2000Jd.secs) * FP, 86400)

\* the days since the midnight before the epoch
daysSinceMidnight(date) == JdMinus(dateToJulianDay(date), dateToJulianDay(Date(J2000.day, 0)))

daysSinceJ2000(date) == JdMinus(dateToJulianDay(date), dateToJulianDay(J2000))

\* calculateEarthPosition: the mean anomaly M, the equation of center C, the
\* true longitude lambda and the position at distance r
EarthMeanAnomaly(days) ==
    DegToRad(Dec(357, <<529, 100>>) + Times(days, 0, <<985, 600, 280>>))

EarthEquationOfCenter(M) ==
    DegToRad(Times(Sin(M), 1, <<914, 800>>)
             + Times(Sin(2 * M), 0, <<20>>)
             + Times(Sin(3 * M), 0, <<0, 300>>))

EarthLongitude(M) ==
    JsMod((M + EarthEquationOfCenter(M)) + DegToRad(Dec(102, <<937, 300>>)), TwoPi)

EarthAt(lambda, r) == Vector3(Mul(r, Cos(lambda)), 0, Mul(r, Sin(lambda)))

calculateEarthPosition(date) ==
    EarthAt(EarthLongitude(EarthMeanAnomaly(daysSinceJ2000(date))), EARTH_SUN_DISTANCE)

calculateSunPosition(date, earthPosition) ==
    Vector3(-earthPosition.x, -earthPosition.y, -earthPosition.z)

\* calculateMoonPosition: the corrections deltaL, deltaB and deltaR of the mean
\* elements L, M, Ms and F, with D2 = 2 * (L - Ms)
MoonDeltaL(M, Ms, D2) ==
    DegToRad(Times(Sin(M), 6, <<289>>)
             - Times(Sin(M - D2), 1, <<274>>)
             + Times(Sin(D2), 0, <<658>>)
             - Times(Sin(Ms), 0, <<186>>)
             - Times(Sin(2 * M - D2), 0, <<59>>)
             - Times(Sin(M - D2 + Ms), 0, <<57>>))

MoonDeltaB(M, F, D2) ==
    DegToRad(Times(Sin(F), 5, <<128>>)
             + Times(Sin(M + F), 0, <<281>>)
             + Times(Sin(M - F), 0, <<278>>)
             + Times(Sin(D2 - F), 0, <<173>>))

MoonDeltaR(M, D2) ==
    Round(-20905 * Cos(M) - 3699 * Cos(D2 - M) - 2956 * Cos(D2) - 570 * Cos(2 * M), 1000)

MoonAt(earthPosition, lambdaM, betaM, r) ==
    Vector3(earthPosition.x + Mul(Mul(r, Cos(betaM)), Cos(lambdaM)),
            earthPosition.y + Mul(r, Sin(betaM)),
            earthPosition.z + Mul(Mul(r, Cos(betaM)), Sin(lambdaM)))

MoonOfElements(earthPosition, L, M, Ms, F, D2) ==
    MoonAt(earthPosition, L + MoonDeltaL(M, Ms, D2), MoonDeltaB(M, F, D2),
           MOON_EARTH_DISTANCE + Times(MoonDeltaR(M, D2), 0, <<10>>))

MoonOfMeans(earthPosition, L, M, Ms, F) ==
    MoonOfElements(earthPosition, L, M, Ms, F, 2 * (L - Ms))

MoonOfDays(earthPosition, days) ==
    MoonOfMeans(earthPosition,
        DegToRad(Dec(218, <<316, 447, 700>>) + Times(days, 13, <<176, 396, 480>>)),
        DegToRad(Dec(134, <<963, 396, 400>>) + Times(days, 13, <<64, 992, 950>>)),
        DegToRad(Dec(357, <<529, 100>>) + Times(days, 0, <<985, 600, 280>>)),
        DegToRad(Dec(93, <<272, 95>>) + Times(days, 13, <<229, 353, 970>>)))

calculateMoonPosition(date, earthPosition) == MoonOfDays(earthPosition, daysSinceJ2000(date))

\* calculateEarthRotation: the sidereal time gmst in hours is taken % 24, and
\* an hour is 15 degrees
SiderealHours(days) ==
    JsMod(Dec(18, <<697, 374, 558>>) + Times(days, 24, <<65, 709, 824, 419, 80>>), Num(24))

calculateEarthRotation(date) == DegToRad(SiderealHours(daysSinceJ2000(date)) * 15)

ViewerAt(earthPosition, lat, localRotation) ==
    Vector3(earthPosition.x + Mul(Mul(EARTH_RADIUS, Cos(lat)), Cos(localRotation)),
            earthPosition.y + Mul(EARTH_RADIUS, Sin(lat)),
            earthPosition.z + Mul(Mul(EARTH_RADIUS, Cos(lat)), Sin(localRotation)))

calculateViewerPosition(latitude, longitude, earthPosition, earthRotation) ==
    ViewerAt(earthPosition, DegToRad(latitude), earthRotation + DegToRad(longitude))

\* x * 180 / Math.PI, NaN for NaN
NaNRadToDeg(x) == IF IsNaN(x) THEN NaN ELSE RadToDeg(x)

\* the angles of a direction whose zero length is not guarded: 0 / 0
SolarAnglesOfQuotient(toSun) ==
    IF toSun = Zero3 THEN [elevation |-> NaN, azimuth |-> NaN]
    ELSE [elevation |-> NaNRadToDeg(Asin(toSun.y)),
          azimuth   |-> RadToDeg(Atan2(toSun.x, toSun.z))]

SolarAnglesOf(toSun) ==
    [elevation |-> NaNRadToDeg(Asin(toSun.y)),
     azimuth   |-> RadToDeg(Atan2(toSun.x, toSun.z))]

calculateSolarAngles(sunPosition, viewerPosition) ==
    SolarAnglesOf(Normalize(SubVectors(sunPosition, viewerPosition)))

\* ViewerMarker.calculateSolarAngles, with this.mesh there (hasMesh) at
\* meshPosition or not: the azimuth is taken (azimuth + 360) % 360
MarkerAnglesOf(angles) ==
    [elevation |-> angles.elevation,
     azimuth   |-> IF IsNaN(angles.azimuth) THEN NaN
                   ELSE JsMod(angles.azimuth + Num(360), Num(360))]

markerSolarAngles(hasMesh, sunPosition, meshPosition) ==
    IF ~hasMesh THEN [elevation |-> 0, azimuth |-> 0]
    ELSE MarkerAnglesOf(calculateSolarAngles(sunPosition, meshPosition))

\* a < b of JavaScript: false when either side is NaN
Lt(a, b) == ~IsNaN(a) /\ ~IsNaN(b) /\ a < b

\* calculateMoonPhase: the name of the phase angle in degrees
PhaseName(phaseAngleDegrees) ==
    IF Lt(phaseAngleDegrees, Dec(22, <<500>>)) THEN "New Moon"
    ELSE IF Lt(phaseAngleDegrees, Dec(67, <<500>>)) THEN "Waxing Crescent"
    ELSE IF Lt(phaseAngleDegrees, Dec(112, <<500>>)) THEN "First Quarter"
    ELSE IF Lt(phaseAngleDegrees, Dec(157, <<500>>)) THEN "Waxing Gibbous"
    ELSE IF Lt(phaseAngleDegrees, Dec(202, <<500>>)) THEN "Full Moon"
    ELSE IF Lt(phaseAngleDegrees, Dec(247, <<500>>)) THEN "Waning Gibbous"
    ELSE IF Lt(phaseAngleDegrees, Dec(292, <<500>>)) THEN "Third Quarter"
    ELSE IF Lt(phaseAngleDegrees, Dec(337, <<500>>)) THEN "Waning Crescent"
    ELSE "New Moon"

\* (1 + Math.cos(phaseAngle)) / 2
Illumination(phaseAngle) ==
    IF IsNaN(phaseAngle) THEN NaN ELSE Round(FP + Cos(phaseAngle), 2)

PhaseOfDegrees(phaseAngle, phaseAngleDegrees) ==
    [name         |-> PhaseName(phaseAngleDegrees),
     illumination |-> Illumination(phaseAngle),
     angle        |-> phaseAngleDegrees]

PhaseOfAngle(phaseAngle) == PhaseOfDegrees(phaseAngle, NaNRadToDeg(phaseAngle))

calculateMoonPhase(sunPosition, earthPosition, moonPosition) ==
    PhaseOfAngle(Acos(Dot(Normalize(SubVectors(sunPosition, earthPosition)),
                          Normalize(SubVectors(moonPosition, earthPosition)))))

\* dot > 0.99, the literal taken exactly: 990 thousandths
Aligned(dot) == dot * 1000 > 990 * FP

\* both flags taken from the solar score
EclipsesOfSolarScore(solarEclipseDot, lunarEclipseDot) ==
    [solar |-> Aligned(solarEclipseDot),
     lunar |-> Aligned(solarEclipseDot),
     solarAlignment |-> solarEclipseDot,
     lunarAlignment |-> lunarEclipseDot]

EclipsesOf(solarEclipseDot, lunarEclipseDot) ==
    [solar |-> Aligned(solarEclipseDot),
     lunar |-> Aligned(lunarEclipseDot),
     solarAlignment |-> solarEclipseDot,
     lunarAlignment |-> lunarEclipseDot]

checkEclipses(sunPosition, earthPosition, moonPosition) ==
    EclipsesOf(Dot(Normalize(SubVectors(sunPosition, earthPosition)),
                   Normalize(SubVectors(moonPosition, earthPosition))),
               Dot(Normalize(SubVectors(sunPosition, moonPosition)),
                   Normalize(SubVectors(earthPosition, moonPosition))))

\* calculateAstronomicalState; latitude and longitude are the viewer's fields
\* of the AstronomicalCalculations object it reads
StateOfPositions(date, earthPosition, sunPosition, moonPosition, viewerPosition, earthRotation) ==
    [date      |-> date,
     positions |-> [earth |-> earthPosition, sun |-> sunPosition,
                    moon |-> moonPosition, viewer |-> viewerPosition],
     rotations |-> [earth |-> earthRotation],
     solar     |-> calculateSolarAngles(sunPosition, viewerPosition),
     moonPhase |-> calculateMoonPhase(sunPosition, earthPosition, moonPosition),
     eclipses  |-> checkEclipses(sunPosition, earthPosition, moonPosition),
     julianDay |-> dateToJulianDay(date),
     daysSinceJ2000 |-> daysSinceJ2000(date)]

StateOfEarth(date, latitude, longitude, earthPosition, earthRotation) ==
    StateOfPositions(date, earthPosition,
                     calculateSunPosition(date, earthPosition),
                     calculateMoonPosition(date, earthPosition),
                     calculateViewerPosition(latitude, longitude, earthPosition, earthRotation),
                     earthRotation)

calculateAstronomicalState(date, latitude, longitude) ==
    StateOfEarth(date, latitude, longitude,
                 calculateEarthPosition(date), calculateEarthRotation(date))

(***************************************************************************)
(* Scene                                                                   *)
(***************************************************************************)
CoordinateSystems == {"geocentric", "heliocentric", "selenocentric"}

\* calculateCoordinateSystemPositions for this.coordinateSystem = system; the
\* default branch calls itself with this.coordinateSystem unchanged and never
\* returns: NoPositions
NoPositions == [none |-> TRUE]

\* the geocentric positions, whatever the coordinate system
geocentricPositions(system, state) ==
    [earth |-> Zero3,
     moon  |-> MultiplyScalar(
                   Normalize(SubVectors(state.positions.moon, state.positions.earth)), Num(30)),
     sun   |-> MultiplyScalar(
                   Normalize(SubVectors(state.positions.sun, state.positions.earth)), Num(80))]

\* the positions of the calculation, not moved to any anchor
uncentredPositions(system, state) ==
    [earth |-> state.positions.earth, moon |-> state.positions.moon,
     sun |-> state.positions.sun]

calculateCoordinateSystemPositions(system, state) ==
    IF system = "geocentric" THEN
        LET earth      == Zero3
            earthToMoon == MultiplyScalar(
                Normalize(SubVectors(state.positions.moon, state.positions.earth)), Num(30))
            earthToSun == MultiplyScalar(
                Normalize(SubVectors(state.positions.sun, state.positions.earth)), Num(80))
        IN  [earth |-> earth,
             moon  |-> AddVectors(earth, earthToMoon),
             sun   |-> AddVectors(earth, earthToSun)]
    ELSE IF system = "heliocentric" THEN
        LET sun        == Zero3
            sunToEarth == MultiplyScalar(
                Normalize(SubVectors(state.positions.earth, state.positions.sun)), Num(60))
            earth      == AddVectors(sun, sunToEarth)
            earthToMoonHelio == RotateX(
                MultiplyScalar(
                    Normalize(SubVectors(state.positions.moon, state.positions.earth)), Num(15)),
                DegToRad(Dec(5, <<140>>)))
        IN  [earth |-> earth,
             moon  |-> AddVectors(earth, earthToMoonHelio),
             sun   |-> sun]
    ELSE IF system = "selenocentric" THEN
        LET moon        == Zero3
            moonToEarth == MultiplyScalar(
                Normalize(SubVectors(state.positions.earth, state.positions.moon)), Num(25))
            moonToSun   == MultiplyScalar(
                Normalize(SubVectors(state.positions.sun, state.positions.moon)), Num(80))
        IN  [earth |-> AddVectors(moon, moonToEarth),
             moon  |-> moon,
             sun   |-> AddVectors(moon, moonToSun)]
    ELSE NoPositions

\* a camera that follows the earth in every coordinate system
earthCameraTarget(system, pos, target) == pos.earth

\* updateCameraTarget: the new value of this.cameraTarget
updateCameraTarget(system, pos, target) ==
    IF system = "geocentric" THEN pos.earth
    ELSE IF system = "heliocentric" THEN pos.sun
    ELSE IF system = "selenocentric" THEN pos.moon
    ELSE target


(***************************************************************************)
(* The inputs.  An instant is MaxPeriods or fewer steps of 59 days (two    *)
(* lunar months) before or after the day of J2000, at midnight, at noon or *)
(* half a second after noon; a viewer is a pair <<latitude, longitude>> in *)
(* degrees.                                                                *)
(***************************************************************************)
MaxPeriods == 1

Instants ==
    { Date(J2000.day + k * 59, ms) :
        k \in -MaxPeriods .. MaxPeriods, ms \in {0, 43200000, 43200500} }

Viewers == { <<Num(45), Num(45)>>, <<Dec(46, <<100>>), Dec(6, <<500>>)>>, <<Num(-95), Num(200)>> }

\* calculateAstronomicalState on the inputs
AstronomicalStates ==
    [date \in Instants, viewer \in Viewers |->
        calculateAstronomicalState(date, viewer[1], viewer[2])]

VARIABLES
    currentTime,         \* Scene.currentTime
    astronomicalState,   \* Scene.astronomicalState, Null before the first update
    coordinateSystem,    \* Scene.coordinateSystem
    cameraTarget,        \* Scene.cameraTarget
    cameraDistance,      \* Scene.cameraDistance
    minCameraDistance,   \* Scene.minCameraDistance
    maxCameraDistance,   \* Scene.maxCameraDistance
    viewerLatitude,      \* Scene.astronomy.viewerLatitude
    viewerLongitude,     \* Scene.astronomy.viewerLongitude
    loaded,              \* Scene.earth, .moon and .sun are set and have their meshes
    meshes,              \* the mesh positions of earth, moon and sun, and the
                         \* earth mesh's rotation.y
    sunLightPosition,    \* Scene.sunLight.position
    positions,           \* what calculateCoordinateSystemPositions returned last
    lastOp,              \* the last operation called and its arguments; of
                         \* setTime also whether it went back in time, of
                         \* setCoordinateSystem also the system it left
    probe,               \* the last call of a calculation on its own, and its result
    joystick,            \* the SmartTimeJoystick: its fields, whether the stick is
                         \* held, what its last step gave to onTimeSpeedChange
                         \* (emitted), the direction and motion at the last
                         \* release, the callbacks that requestAnimationFrame
                         \* holds (framePending: the one animationFrameId names;
                         \* otherFrames: how many others), the last event, and
                         \* whether it cancelled a callback
    timeControls,        \* the TimeControls: its currentTime, the value of its
                         \* datetime input, and its last handler with what that
                         \* was given and what it gave to onTimeChange
    cameraControls,      \* the CameraControls: its urlParams and PARAMS, the range
                         \* of its distance slider, whether it was given the
                         \* Scene, and whether it is as its constructor left it
    cameraAngles,        \* Scene.cameraPitch and Scene.cameraBearing
    startup              \* the start of the application: the textures, the
                         \* objects of the Scene, init() and waitForSceneLoad()

sceneVars == <<currentTime, astronomicalState, coordinateSystem, cameraTarget,
               cameraDistance, minCameraDistance, maxCameraDistance, viewerLatitude,
               viewerLongitude, loaded, meshes, sunLightPosition, positions, lastOp>>
uiVars == <<timeControls, cameraControls, cameraAngles, startup>>
vars == <<sceneVars, probe, joystick, uiVars>>

Null == [null |-> TRUE]
NoMeshes == [none |-> TRUE]
NoProbe == [fn |-> "none"]
Undefined == [undefined |-> TRUE]
Number(n) == [number |-> n]
Text(t) == [text |-> t]
NoTimeControls == [created |-> FALSE]
NoCameraControls == [created |-> FALSE]

\* the application once new Scene() has returned: init() has set this.earth
\* and waits for its texture (awaiting); earth, moon and sun tell which of the
\* fields of the Scene are set, failed the texture that failed, resolved
\* whether waitForSceneLoad() has resolved
NewStartup ==
    [awaiting |-> "earth", earth |-> TRUE, moon |-> FALSE, sun |-> FALSE,
     failed |-> "none", resolved |-> FALSE]

\* init() at its end, the three textures loaded
StartupDone ==
    [awaiting |-> "none", earth |-> TRUE, moon |-> TRUE, sun |-> TRUE,
     failed |-> "none", resolved |-> FALSE]

(***************************************************************************)
(* SmartTimeJoystick.  A speed is a whole number of SpeedScale-ths of a    *)
(* second per second.  The target speeds of a push are the first           *)
(* MaxTargetSteps multiples of minSpeed, the least speed that              *)
(* calculateLogarithmicSpeed gives to a push, and 0 for no push.           *)
(***************************************************************************)
SpeedScale == 10 ^ 4
minSpeed == SpeedScale \div 100
SpeedThreshold == SpeedScale \div 1000

NoIncrement == [kind |-> "none"]

\* the constructor
NewJoystick ==
    [currentSpeed |-> 0, targetSpeed |-> 0, direction |-> 1, isPlaying |-> FALSE,
     animationFrameId |-> FALSE, held |-> FALSE, emitted |-> NoIncrement,
     releasedFrom |-> 0, movingAtRelease |-> FALSE,
     framePending |-> FALSE, otherFrames |-> 0, lastEvent |-> "constructor",
     cancelled |-> FALSE]

\* the callbacks that requestAnimationFrame holds for the joystick
PendingFrames(j) == (IF j.framePending THEN 1 ELSE 0) + j.otherFrames

\* the constructor, with init() run up to its await: currentTime is new Date()
Init ==
    /\ currentTime \in Instants
    /\ astronomicalState = Null
    /\ coordinateSystem = "geocentric"
    /\ cameraTarget = Zero3
    /\ cameraDistance = Num(80)
    /\ minCameraDistance = Num(20)
    /\ maxCameraDistance = Num(200)
    /\ viewerLatitude = Num(45)
    /\ viewerLongitude = Num(45)
    /\ loaded = FALSE
    /\ meshes = NoMeshes
    /\ sunLightPosition = Zero3
    /\ positions = NoPositions
    /\ lastOp = [op |-> "constructor"]
    /\ probe = NoProbe
    /\ joystick = NewJoystick
    /\ timeControls = NoTimeControls
    /\ cameraControls = NoCameraControls
    /\ cameraAngles = [pitch |-> Number(Num(90)), bearing |-> Number(0)]
    /\ startup = NewStartup

\* updateAstronomicalState(time) from updateSunLight() on: state is the new
\* this.astronomicalState and pos its projected positions
showAstronomicalState(time, system, state, pos, isLoaded) ==
    /\ currentTime' = time
    /\ astronomicalState' = state
    /\ positions' = pos
    /\ meshes' = IF isLoaded
                 THEN [earth |-> pos.earth, moon |-> pos.moon, sun |-> pos.sun,
                       earthRotation |-> state.rotations.earth]
                 ELSE meshes
    /\ sunLightPosition' = pos.sun
    /\ cameraTarget' = updateCameraTarget(system, pos, cameraTarget)

\* a projection that subtracts in place: state.positions.moon.sub(earth) where
\* the code has new THREE.Vector3().subVectors(moon, earth)
projectInPlace(time, system, state, isLoaded) ==
    showAstronomicalState(time, system,
        [state EXCEPT !.positions.moon = SubVectors(@, state.positions.earth)],
        calculateCoordinateSystemPositions(system, state), isLoaded)

\* updateAstronomicalState(time) from calculateCoordinateSystemPositions() on
projectAstronomicalState(time, system, state, isLoaded) ==
    showAstronomicalState(time, system, state,
                          calculateCoordinateSystemPositions(system, state), isLoaded)

\* an update whose calculation reads the coordinate system
updateAstronomicalStateOfFrame(time, system, latitude, longitude, isLoaded) ==
    projectAstronomicalState(time, system,
        [AstronomicalStates[time, <<latitude, longitude>>] EXCEPT
            !.daysSinceJ2000 = @ + (IF system = "heliocentric" THEN 1 ELSE 0)],
        isLoaded)

\* updateAstronomicalState(time), with this.coordinateSystem = system, the
\* viewer of this.astronomy at <<latitude, longitude>> and the objects there
\* or not (isLoaded)
updateAstronomicalState(time, system, latitude, longitude, isLoaded) ==
    projectAstronomicalState(time, system,
                             AstronomicalStates[time, <<latitude, longitude>>], isLoaded)

\* init() after loadAstronomicalObjects(): the first updateAstronomicalState
FinishInitOf ==
    /\ ~loaded
    /\ loaded' = TRUE
    /\ updateAstronomicalState(currentTime, coordinateSystem, viewerLatitude,
                               viewerLongitude, TRUE)
    /\ lastOp' = [op |-> "init"]
    /\ UNCHANGED <<coordinateSystem, cameraDistance, minCameraDistance,
                   maxCameraDistance, viewerLatitude, viewerLongitude>>

\* the textures arrive and init() ends, in one step
FinishInit ==
    /\ FinishInitOf
    /\ startup' = [StartupDone EXCEPT !.resolved = startup.resolved]
    /\ UNCHANGED <<probe, joystick, timeControls, cameraControls, cameraAngles>>

\* a setTime that keeps the state when the time goes back
setTimeForward(time) ==
    /\ lastOp' = [op |-> "setTime", time |-> time, backward |-> DateLess(time, currentTime)]
    /\ IF DateLess(time, currentTime)
       THEN UNCHANGED <<currentTime, astronomicalState, positions, meshes,
                        sunLightPosition, cameraTarget>>
       ELSE updateAstronomicalState(time, coordinateSystem, viewerLatitude,
                                    viewerLongitude, loaded)
    /\ UNCHANGED <<coordinateSystem, cameraDistance, minCameraDistance,
                   maxCameraDistance, viewerLatitude, viewerLongitude, loaded, probe, joystick, uiVars>>

setTime(time) ==
    /\ updateAstronomicalState(time, coordinateSystem, viewerLatitude,
                               viewerLongitude, loaded)
    /\ lastOp' = [op |-> "setTime", time |-> time, backward |-> DateLess(time, currentTime)]
    /\ UNCHANGED <<coordinateSystem, cameraDistance, minCameraDistance,
                   maxCameraDistance, viewerLatitude, viewerLongitude, loaded, probe, joystick, uiVars>>

\* a setCoordinateSystem that falls back to geocentric for an unknown name
setCoordinateSystemOrDefault(system) ==
    /\ lastOp' = [op |-> "setCoordinateSystem", system |-> system, from |-> coordinateSystem]
    /\ coordinateSystem' = IF system \in CoordinateSystems THEN system ELSE "geocentric"
    /\ minCameraDistance' = CASE coordinateSystem' = "geocentric" -> Num(20)
                              [] coordinateSystem' = "heliocentric" -> Num(30)
                              [] coordinateSystem' = "selenocentric" -> Num(15)
    /\ maxCameraDistance' = CASE coordinateSystem' = "geocentric" -> Num(200)
                              [] coordinateSystem' = "heliocentric" -> Num(300)
                              [] coordinateSystem' = "selenocentric" -> Num(150)
    /\ cameraDistance' = CASE coordinateSystem' = "geocentric" -> Min2(cameraDistance, Num(150))
                           [] coordinateSystem' = "heliocentric" -> Max2(cameraDistance, Num(120))
                           [] coordinateSystem' = "selenocentric" -> Min2(cameraDistance, Num(80))
    /\ updateAstronomicalState(currentTime, coordinateSystem', viewerLatitude,
                               viewerLongitude, loaded)
    /\ UNCHANGED <<viewerLatitude, viewerLongitude, loaded, probe, joystick, uiVars>>

\* setCoordinateSystem(system), as far as the Scene goes
setCoordinateSystemOf(system) ==
    /\ lastOp' = [op |-> "setCoordinateSystem", system |-> system, from |-> coordinateSystem]
    /\ IF system \in {"geocentric", "heliocentric", "selenocentric"}
       THEN /\ coordinateSystem' = system
            /\ minCameraDistance' = CASE system = "geocentric" -> Num(20)
                                      [] system = "heliocentric" -> Num(30)
                                      [] system = "selenocentric" -> Num(15)
            /\ maxCameraDistance' = CASE system = "geocentric" -> Num(200)
                                      [] system = "heliocentric" -> Num(300)
                                      [] system = "selenocentric" -> Num(150)
            /\ cameraDistance' = CASE system = "geocentric" -> Min2(cameraDistance, Num(150))
                                   [] system = "heliocentric" -> Max2(cameraDistance, Num(120))
                                   [] system = "selenocentric" -> Min2(cameraDistance, Num(80))
            /\ updateAstronomicalState(currentTime, system, viewerLatitude,
                                       viewerLongitude, loaded)
       ELSE UNCHANGED <<currentTime, astronomicalState, coordinateSystem, cameraTarget,
                        cameraDistance, minCameraDistance, maxCameraDistance, meshes,
                        sunLightPosition, positions>>
    /\ UNCHANGED <<viewerLatitude, viewerLongitude, loaded>>

setCoordinateSystem(system) ==
    /\ setCoordinateSystemOf(system)
    /\ UNCHANGED <<probe, joystick, uiVars>>

setViewerCoordinates(latitude, longitude) ==
    /\ viewerLatitude' = latitude
    /\ viewerLongitude' = longitude
    /\ updateAstronomicalState(currentTime, coordinateSystem, latitude, longitude, loaded)
    /\ lastOp' = [op |-> "setViewerCoordinates", latitude |-> latitude,
                  longitude |-> longitude]
    /\ UNCHANGED <<coordinateSystem, cameraDistance, minCameraDistance,
                   maxCameraDistance, loaded, probe, joystick, uiVars>>

Next ==
    \/ FinishInit
    \/ \E time \in Instants : setTime(time)
    \/ \E system \in CoordinateSystems \cup {"ptolemaic"} : setCoordinateSystem(system)
    \/ \E viewer \in Viewers : setViewerCoordinates(viewer[1], viewer[2])

Spec == Init /\ [][Next]_vars

(***************************************************************************)
(* The calculations called on their own.  They are methods without side   *)
(* effects, so a behaviour makes one call and probe holds its arguments    *)
(* and its result.                                                         *)
(*                                                                         *)
(* The dates are the days MaxDays or fewer from the day of J2000 at the    *)
(* times ProbeTimes, and dateToJulianDay is called for a date t1 and the   *)
(* date t2 a delay of Delays later.  The bodies are at one of the first    *)
(* MaxScale doublings of a direction of Directions from the earth.         *)
(***************************************************************************)
MaxDays == 1
MaxScale == 2

ProbeTimes == {0, 999, 12 * 3600000, MsPerDay - 500}
ProbeDates == { Date(J2000.day + k, ms) : k \in -MaxDays .. MaxDays, ms \in ProbeTimes }
Delays == {1, 500, 1000, MsPerDay}

\* new Date(date.getTime() + delay)
Later(date, delay) ==
    Date(date.day + ((date.ms + delay) \div MsPerDay), (date.ms + delay) % MsPerDay)

Directions ==
    { Vector3(Num(1), 0, 0), Vector3(Num(-1), 0, 0), Vector3(0, Num(1), 0),
      Vector3(Num(2), Num(1), Num(1)), Vector3(0, Num(2), Num(-1)),
      Vector3(0, 0, Num(-1)),
      Vector3(Num(1), 0, Dec(1, <<732>>)), Vector3(Num(1), 0, Dec(0, <<45>>)) }
Earths == { Zero3, Vector3(Num(1), Num(-2), Num(3)) }
Scales == { 2 ^ (k - 1) : k \in 1 .. MaxScale }
Offsets == { Vector3(k * d.x, k * d.y, k * d.z) : k \in Scales, d \in Directions }

callDateToJulianDay(t1, t2) ==
    /\ probe = NoProbe
    /\ probe' = [fn |-> "dateToJulianDay", t1 |-> t1, t2 |-> t2,
                 jd1 |-> dateToJulianDay(t1), jd2 |-> dateToJulianDay(t2)]
    /\ UNCHANGED <<sceneVars, joystick, uiVars>>

callCalculateEarthRotation(date) ==
    /\ probe = NoProbe
    /\ probe' = [fn |-> "calculateEarthRotation", date |-> date,
                 days |-> daysSinceJ2000(date), rotation |-> calculateEarthRotation(date)]
    /\ UNCHANGED <<sceneVars, joystick, uiVars>>

callCalculateMoonPhase(sunPosition, earthPosition, moonPosition) ==
    /\ probe = NoProbe
    /\ probe' = [fn |-> "calculateMoonPhase", sun |-> sunPosition, earth |-> earthPosition,
                 moon |-> moonPosition,
                 phase |-> calculateMoonPhase(sunPosition, earthPosition, moonPosition)]
    /\ UNCHANGED <<sceneVars, joystick, uiVars>>

callCheckEclipses(sunPosition, earthPosition, moonPosition) ==
    /\ probe = NoProbe
    /\ probe' = [fn |-> "checkEclipses", sun |-> sunPosition, earth |-> earthPosition,
                 moon |-> moonPosition,
                 eclipses |-> checkEclipses(sunPosition, earthPosition, moonPosition)]
    /\ UNCHANGED <<sceneVars, joystick, uiVars>>

callDaysSinceJ2000(date) ==
    /\ probe = NoProbe
    /\ probe' = [fn |-> "daysSinceJ2000", date |-> date, days |-> daysSinceJ2000(date),
                 jd |-> dateToJulianDay(date), j2000Jd |-> dateToJulianDay(J2000)]
    /\ UNCHANGED <<sceneVars, joystick, uiVars>>

callCalculateSolarAngles(hasMesh, sunPosition, viewerPosition) ==
    /\ probe = NoProbe
    /\ probe' = [fn |-> "calculateSolarAngles", sun |-> sunPosition,
                 viewer |-> viewerPosition, hasMesh |-> hasMesh,
                 solar |-> calculateSolarAngles(sunPosition, viewerPosition),
                 marker |-> markerSolarAngles(hasMesh, sunPosition, viewerPosition)]
    /\ UNCHANGED <<sceneVars, joystick, uiVars>>

\* calculateCoordinateSystemPositions(state) called with this.coordinateSystem
\* = system.  With a name the switch does not know, the default branch calls
\* the method again with a copy of the state; this.coordinateSystem is what it
\* was, so the call is still running, one frame deeper (recurse...), until the
\* stack of MaxStack frames is full and the engine throws a RangeError.
MaxStack == 3

StateAt(earthPosition, sunPosition, moonPosition) ==
    [positions |-> [earth |-> earthPosition, sun |-> sunPosition, moon |-> moonPosition]]

callCalculateCoordinateSystemPositions(system, state) ==
    /\ probe = NoProbe
    /\ probe' = [fn |-> "calculateCoordinateSystemPositions", system |-> system,
                 state |-> state, depth |-> 1,
                 outcome |-> IF system \in CoordinateSystems THEN "returned" ELSE "running",
                 positions |-> calculateCoordinateSystemPositions(system, state)]
    /\ UNCHANGED <<sceneVars, joystick, uiVars>>

recurseCalculateCoordinateSystemPositions ==
    /\ probe.fn = "calculateCoordinateSystemPositions"
    /\ probe.outcome = "running"
    /\ probe' = IF probe.depth < MaxStack
                THEN [probe EXCEPT !.depth = @ + 1,
                                   !.positions = calculateCoordinateSystemPositions(
                                                     probe.system, probe.state)]
                ELSE [probe EXCEPT !.outcome = "RangeError"]
    /\ UNCHANGED <<sceneVars, joystick, uiVars>>

NextCalc ==
    \/ \E t1 \in ProbeDates, delay \in Delays : callDateToJulianDay(t1, Later(t1, delay))
    \/ \E date \in ProbeDates : callCalculateEarthRotation(date)
    \/ \E earth \in Earths, toSun \in Offsets, toMoon \in Offsets :
            callCalculateMoonPhase(AddVectors(earth, toSun), earth, AddVectors(earth, toMoon))
    \/ \E earth \in Earths, toSun \in Offsets, toMoon \in Offsets :
            callCheckEclipses(AddVectors(earth, toSun), earth, AddVectors(earth, toMoon))
    \/ \E date \in ProbeDates : callDaysSinceJ2000(date)
    \/ \E system \in CoordinateSystems \cup {"ptolemaic"}, earth \in Earths,
          toSun \in Directions :
        \E toMoon \in Directions \ {toSun} :
            callCalculateCoordinateSystemPositions(system,
                StateAt(earth, AddVectors(earth, toSun), AddVectors(earth, toMoon)))
    \/ recurseCalculateCoordinateSystemPositions
    \/ \E hasMesh \in BOOLEAN, viewer \in Earths, toSun \in Offsets \cup {Zero3} :
            callCalculateSolarAngles(hasMesh, AddVectors(viewer, toSun), viewer)

\* the calls start from the Scene as constructed at J2000
InitCalc == Init /\ currentTime = J2000

SpecCalc == InitCalc /\ [][NextCalc]_vars

(***************************************************************************)
(* The time joystick on its own: the events 'start', 'move' and 'end' of   *)
(* the stick, the animation frames, stopAnimation, centerJoystick and      *)
(* resetTime.  A frame comes 0 or 16 ms after the one before.              *)
(***************************************************************************)
MaxTargetSteps == 2

TargetSpeeds == {0} \cup { k * minSpeed : k \in 1 .. MaxTargetSteps }
FrameMs == {0, 16}

\* animate() once isPlaying: deltaTime in ms; the increment is in
\* SpeedScale-ths of a millisecond
AnimateSpeed(j, speedDiff) ==
    IF Abs(speedDiff) < SpeedThreshold THEN j.targetSpeed
    ELSE j.currentSpeed + Round(speedDiff * (100 - 92), 100)

\* the end of animate(): the callback, then requestAnimationFrame, whose id
\* replaces the one in animationFrameId; a callback of the old id that is
\* still held is then one of the others
AnimateAt(j, speed, deltaTime) ==
    [j EXCEPT !.currentSpeed = speed,
              !.emitted = IF speed * j.direction # 0
                          THEN [kind |-> "increment", value |-> speed * j.direction * deltaTime]
                          ELSE NoIncrement,
              !.animationFrameId = TRUE,
              !.otherFrames = @ + (IF j.framePending THEN 1 ELSE 0),
              !.framePending = TRUE]

animate(j, deltaTime) == AnimateAt(j, AnimateSpeed(j, j.targetSpeed - j.currentSpeed), deltaTime)

\* a startAnimation without the test of animationFrameId
startAnimationAgain ==
    /\ ~joystick.held
    /\ joystick' = animate([joystick EXCEPT !.held = TRUE, !.isPlaying = TRUE,
                                            !.lastEvent = "start", !.cancelled = FALSE], 0)
    /\ UNCHANGED <<sceneVars, probe, uiVars>>

\* 'start': startAnimation, which runs the first animate() at once
startAnimation ==
    /\ ~joystick.held
    /\ joystick' = IF joystick.animationFrameId
                   THEN [joystick EXCEPT !.held = TRUE, !.emitted = NoIncrement,
                                         !.lastEvent = "start", !.cancelled = FALSE]
                   ELSE animate([joystick EXCEPT !.held = TRUE, !.isPlaying = TRUE,
                                                 !.lastEvent = "start", !.cancelled = FALSE], 0)
    /\ UNCHANGED <<sceneVars, probe, uiVars>>

\* 'move': direction is 1 for verticalComponent >= 0 and -1 below, speed is
\* what calculateLogarithmicSpeed gives for the push
handleJoystickMove(direction, speed) ==
    /\ joystick.held
    /\ joystick' = [joystick EXCEPT !.direction = direction, !.targetSpeed = speed,
                                    !.emitted = NoIncrement,
                                    !.releasedFrom = 0, !.movingAtRelease = FALSE,
                                    !.lastEvent = "move", !.cancelled = FALSE]
    /\ UNCHANGED <<sceneVars, probe, uiVars>>

\* an 'end' that leaves the target speed of the last push
handleJoystickEndAtSpeed ==
    /\ joystick.held
    /\ joystick' = [joystick EXCEPT !.direction = 1, !.held = FALSE,
                                    !.emitted = NoIncrement,
                                    !.releasedFrom = joystick.direction,
                                    !.movingAtRelease = joystick.currentSpeed > 0,
                                    !.lastEvent = "end", !.cancelled = FALSE]
    /\ UNCHANGED <<sceneVars, probe, uiVars>>

\* 'end'
handleJoystickEnd ==
    /\ joystick.held
    /\ joystick' = [joystick EXCEPT !.targetSpeed = 0, !.direction = 1, !.held = FALSE,
                                    !.emitted = NoIncrement,
                                    !.releasedFrom = joystick.direction,
                                    !.movingAtRelease = joystick.currentSpeed > 0,
                                    !.lastEvent = "end", !.cancelled = FALSE]
    /\ UNCHANGED <<sceneVars, probe, uiVars>>

\* j with one of its callbacks taken from requestAnimationFrame to be run:
\* the one animationFrameId names (own) or one of the others
FrameTaken(j, own) ==
    IF own THEN [j EXCEPT !.framePending = FALSE, !.lastEvent = "frame", !.cancelled = FALSE]
    ELSE [j EXCEPT !.otherFrames = @ - 1, !.lastEvent = "frame", !.cancelled = FALSE]

\* animate() as the callback of a frame: it returns at once unless isPlaying
animateCallback(j, deltaTime) ==
    IF j.isPlaying THEN animate(j, deltaTime) ELSE [j EXCEPT !.emitted = NoIncrement]

\* the frame that requestAnimationFrame runs
animateFrame(deltaTime) ==
    \E own \in BOOLEAN :
        /\ IF own THEN joystick.framePending ELSE joystick.otherFrames > 0
        /\ joystick' = animateCallback(FrameTaken(joystick, own), deltaTime)
        /\ UNCHANGED <<sceneVars, probe, uiVars>>

\* stopAnimation() of j: cancelAnimationFrame takes the callback that
\* animationFrameId names, if there is one, and no other
StopAnimationOf(j) ==
    [j EXCEPT !.framePending = IF j.animationFrameId THEN FALSE ELSE @,
              !.cancelled = j.animationFrameId /\ j.framePending,
              !.animationFrameId = FALSE, !.isPlaying = FALSE,
              !.currentSpeed = 0, !.targetSpeed = 0, !.emitted = NoIncrement]

stopAnimation ==
    /\ joystick' = [StopAnimationOf(joystick) EXCEPT !.lastEvent = "stopAnimation"]
    /\ UNCHANGED <<sceneVars, probe, uiVars>>

\* centerJoystick: stopAnimation, and the stick put back at the centre
centerJoystick ==
    /\ joystick' = [StopAnimationOf(joystick) EXCEPT !.lastEvent = "centerJoystick"]
    /\ UNCHANGED <<sceneVars, probe, uiVars>>

\* resetTime: centerJoystick, stopAnimation, and onTimeSpeedChange(null, 'reset')
resetTime ==
    /\ joystick' = [StopAnimationOf(joystick) EXCEPT !.emitted = [kind |-> "reset"],
                                                     !.lastEvent = "resetTime"]
    /\ UNCHANGED <<sceneVars, probe, uiVars>>

NextJoystick ==
    \/ startAnimation
    \/ \E direction \in {1, -1}, speed \in TargetSpeeds : handleJoystickMove(direction, speed)
    \/ handleJoystickEnd
    \/ \E deltaTime \in FrameMs : animateFrame(deltaTime)
    \/ stopAnimation
    \/ centerJoystick
    \/ resetTime

\* the joystick of the Scene as constructed at J2000; a frame that was
\* requested is run in the end
InitJoystick == Init /\ currentTime = J2000

SpecJoystick ==
    /\ InitJoystick
    /\ [][NextJoystick]_vars
    /\ WF_vars(\E deltaTime \in FrameMs : animateFrame(deltaTime))

(***************************************************************************)
(* CameraControls.  The urlParams it is given hold, for each of coord,     *)
(* pitch, bearing, distance, lng and lat, a value, null, or nothing        *)
(* (undefined).  The Scene it is given, if any, has its camera, and then   *)
(* the distance and the viewer it takes from the URL are numbers.  The     *)
(* viewer dot of the Earth and the place of the camera, which follows from *)
(* the distance, the angles and the target, are not part of the model.     *)
(*                                                                         *)
(* A value of JavaScript that may be a number, a string, null or undefined *)
(* is Number(n), Text(t), Null or Undefined.                               *)
(***************************************************************************)

\* {}: an object of which no field is set
NoUrlParams ==
    [coord |-> Undefined, pitch |-> Undefined, bearing |-> Undefined,
     distance |-> Undefined, lng |-> Undefined, lat |-> Undefined]

\* the parameter urlParams = {} for the argument given
UrlParamsOf(argument) == IF argument = Undefined THEN NoUrlParams ELSE argument

\* x || 'geocentric'
OrGeocentric(x) == IF x \in {Null, Undefined, Text("")} THEN "geocentric" ELSE x.text

\* x !== null ? x : d
UnlessNull(x, d) == IF x # Null THEN x ELSE d

\* the constructor: this.PARAMS
ParamsOf(urlParams) ==
    [coordinateSystem |-> OrGeocentric(urlParams.coord),
     pitch |-> UnlessNull(urlParams.pitch, Number(Num(90))),
     bearing |-> UnlessNull(urlParams.bearing, Number(0)),
     distance |-> UnlessNull(urlParams.distance, Number(Num(80))),
     viewerPosition |-> [x |-> UnlessNull(urlParams.lng, Number(Dec(6, <<500>>))),
                         y |-> UnlessNull(urlParams.lat, Number(Dec(46, <<100>>)))]]

\* resetToDefaults: the values it gives to this.PARAMS
DefaultParams ==
    [coordinateSystem |-> "geocentric", pitch |-> Number(Num(90)), bearing |-> Number(0),
     distance |-> Number(Num(80)),
     viewerPosition |-> [x |-> Number(Dec(6, <<500>>)), y |-> Number(Dec(46, <<100>>))]]

\* updateDistanceRange(system): ranges[system] || ranges.geocentric
DistanceRange(system) ==
    IF system = "heliocentric" THEN [min |-> Num(30), max |-> Num(300), step |-> Num(10)]
    ELSE IF system = "selenocentric" THEN [min |-> Num(15), max |-> Num(150), step |-> Num(5)]
    ELSE [min |-> Num(20), max |-> Num(200), step |-> Num(5)]

\* new CameraControls(onCameraChange, scene, urlParams) as an object
NewCameraControls(hasScene, argument) ==
    [created |-> TRUE, hasScene |-> hasScene,
     urlParams |-> UrlParamsOf(argument),
     PARAMS |-> ParamsOf(UrlParamsOf(argument)),
     range |-> DistanceRange(ParamsOf(UrlParamsOf(argument)).coordinateSystem),
     initial |-> TRUE]

NullUrlParams ==
    [coord |-> Null, pitch |-> Null, bearing |-> Null,
     distance |-> Null, lng |-> Null, lat |-> Null]

\* the urlParams of the model: none, {}, every field null, and three URLs
GivenUrlParams ==
    { [coord |-> Text("heliocentric"), pitch |-> Number(Num(45)),
       bearing |-> Number(Num(180)), distance |-> Number(Num(250)),
       lng |-> Number(Num(45)), lat |-> Number(Num(45))],
      [coord |-> Null, pitch |-> Number(Num(45)), bearing |-> Null,
       distance |-> Number(Num(500)), lng |-> Null, lat |-> Null],
      [coord |-> Text("selenocentric"), pitch |-> Undefined, bearing |-> Undefined,
       distance |-> Null, lng |-> Null, lat |-> Null] }
UrlParamsArguments ==
    { Undefined, NoUrlParams, NullUrlParams } \cup GivenUrlParams

\* what the Scene of the model can be given: a distance and a viewer of Viewers
ForTheScene(params) ==
    /\ params.distance # Undefined
    /\ params.viewerPosition.x # Undefined
    /\ params.viewerPosition.y # Undefined
    /\ <<params.viewerPosition.y.number, params.viewerPosition.x.number>> \in Viewers

\* applyInitialState() and resetToDefaults() up to updateViewerCoordinates(),
\* with a Scene: updateCamera(), updateDistance(), updateViewerCoordinates()
applyToScene(params) ==
    /\ cameraAngles' = [pitch |-> params.pitch, bearing |-> params.bearing]
    /\ cameraDistance' = params.distance.number
    /\ viewerLatitude' = params.viewerPosition.y.number
    /\ viewerLongitude' = params.viewerPosition.x.number

\* the constructor
createCameraControls(hasScene, argument) ==
    /\ loaded
    /\ ~cameraControls.created
    /\ cameraControls' = NewCameraControls(hasScene, argument)
    /\ IF hasScene
       THEN /\ ForTheScene(cameraControls'.PARAMS)
            /\ applyToScene(cameraControls'.PARAMS)
            /\ updateAstronomicalState(currentTime, coordinateSystem,
                                       viewerLatitude', viewerLongitude', loaded)
            /\ lastOp' = [op |-> "setViewerCoordinates", latitude |-> viewerLatitude',
                          longitude |-> viewerLongitude']
            /\ UNCHANGED <<coordinateSystem, minCameraDistance, maxCameraDistance, loaded>>
       ELSE UNCHANGED <<sceneVars, cameraAngles>>
    /\ UNCHANGED <<probe, joystick, timeControls, startup>>

\* the wheel of the mouse: zoom(delta), delta 1 or -1
zoom(delta) ==
    /\ cameraDistance' = Max2(minCameraDistance,
                              Min2(maxCameraDistance, cameraDistance + delta * Num(5)))
    /\ UNCHANGED <<currentTime, astronomicalState, coordinateSystem, cameraTarget,
                   minCameraDistance, maxCameraDistance, viewerLatitude, viewerLongitude,
                   loaded, meshes, sunLightPosition, positions, lastOp>>
    /\ UNCHANGED <<probe, joystick, uiVars>>

\* updateDistance()
updateDistance ==
    /\ cameraControls.created
    /\ cameraControls' = [cameraControls EXCEPT !.initial = FALSE]
    /\ cameraDistance' = IF cameraControls.hasScene
                         THEN cameraControls.PARAMS.distance.number
                         ELSE cameraDistance
    /\ UNCHANGED <<currentTime, astronomicalState, coordinateSystem, cameraTarget,
                   minCameraDistance, maxCameraDistance, viewerLatitude, viewerLongitude,
                   loaded, meshes, sunLightPosition, positions, lastOp>>
    /\ UNCHANGED <<probe, joystick, timeControls, cameraAngles, startup>>

\* the distance slider moved to a distance of its range: the binding sets
\* PARAMS.distance and its 'change' listener calls updateDistance()
changeDistance(distance) ==
    /\ cameraControls.created
    /\ cameraControls.range.min <= distance
    /\ distance <= cameraControls.range.max
    /\ cameraControls' = [cameraControls EXCEPT !.PARAMS.distance = Number(distance),
                                                !.initial = FALSE]
    /\ cameraDistance' = IF cameraControls.hasScene THEN distance ELSE cameraDistance
    /\ UNCHANGED <<currentTime, astronomicalState, coordinateSystem, cameraTarget,
                   minCameraDistance, maxCameraDistance, viewerLatitude, viewerLongitude,
                   loaded, meshes, sunLightPosition, positions, lastOp>>
    /\ UNCHANGED <<probe, joystick, timeControls, cameraAngles, startup>>

\* the coordinate system chosen in the list: changeCoordinateSystem(system)
changeCoordinateSystem(system) ==
    /\ cameraControls.created
    /\ cameraControls' = [cameraControls EXCEPT !.PARAMS.coordinateSystem = system,
                                                !.range = DistanceRange(system),
                                                !.initial = FALSE]
    /\ IF cameraControls.hasScene THEN setCoordinateSystemOf(system)
       ELSE UNCHANGED sceneVars
    /\ UNCHANGED <<probe, joystick, timeControls, cameraAngles, startup>>

\* the button 'Reset View': resetToDefaults(), which ends with
\* changeCoordinateSystem('geocentric')
resetToDefaults ==
    /\ cameraControls.created
    /\ cameraControls' = [cameraControls EXCEPT !.PARAMS = DefaultParams,
                                                !.range = DistanceRange("geocentric"),
                                                !.initial = FALSE]
    /\ IF cameraControls.hasScene
       THEN /\ cameraAngles' = [pitch |-> Number(Num(90)), bearing |-> Number(0)]
            /\ viewerLatitude' = Dec(46, <<100>>)
            /\ viewerLongitude' = Dec(6, <<500>>)
            /\ coordinateSystem' = "geocentric"
            /\ minCameraDistance' = Num(20)
            /\ maxCameraDistance' = Num(200)
            /\ cameraDistance' = Min2(Num(80), Num(150))
            /\ updateAstronomicalState(currentTime, "geocentric", viewerLatitude',
                                       viewerLongitude', loaded)
            /\ lastOp' = [op |-> "setCoordinateSystem", system |-> "geocentric",
                          from |-> coordinateSystem]
            /\ UNCHANGED loaded
       ELSE UNCHANGED <<sceneVars, cameraAngles>>
    /\ UNCHANGED <<probe, joystick, timeControls, startup>>

\* the distances the slider is moved to
SliderDistances == { Num(20), Num(150), Num(200), Num(300) }

NextCamera ==
    \/ FinishInit
    \/ \E argument \in UrlParamsArguments : createCameraControls(TRUE, argument)
    \/ \E argument \in {Undefined, NoUrlParams} : createCameraControls(FALSE, argument)
    \/ \E delta \in {1, -1} : zoom(delta)
    \/ updateDistance
    \/ \E distance \in SliderDistances : changeDistance(distance)
    \/ \E system \in CoordinateSystems : changeCoordinateSystem(system)
    \/ resetToDefaults

\* the Scene as constructed at J2000
InitCamera == Init /\ currentTime = J2000

SpecCamera == InitCamera /\ [][NextCamera]_vars

(***************************************************************************)
(* The application: MoonEarthSunApp.init() of part_011 with the Scene, and *)
(* the TimeControls it creates once waitForSceneLoad() has resolved, with  *)
(* onTimeChange = Scene.setTime, no Scene and no urlParams.  The elements  *)
(* of the page that the code looks up are there.  Local time is UTC.  The  *)
(* times are those of Instants: a handler that would lead to another time  *)
(* is left out.  An increment is a whole number of SpeedScale-ths of a     *)
(* millisecond, as the joystick gives it.                                  *)
(***************************************************************************)

\* the mesh positions after an update, of the meshes there are
UpdatedMeshes(old, pos, state) ==
    [f \in DOMAIN old |->
        CASE f = "earth" -> pos.earth
          [] f = "moon" -> pos.moon
          [] f = "sun" -> pos.sun
          [] f = "earthRotation" -> state.rotations.earth
          [] OTHER -> old[f]]

\* updateAstronomicalState(time) from the update of the objects on, when not
\* all objects have their mesh
showLoadedMeshes(time, system, state, pos) ==
    /\ currentTime' = time
    /\ astronomicalState' = state
    /\ positions' = pos
    /\ meshes' = UpdatedMeshes(meshes, pos, state)
    /\ sunLightPosition' = pos.sun
    /\ cameraTarget' = updateCameraTarget(system, pos, cameraTarget)

updateLoadedMeshes(time, system, state) ==
    showLoadedMeshes(time, system, state, calculateCoordinateSystemPositions(system, state))

\* MoonEarthSunApp.onTimeChange(time): Scene.setTime(time)
onTimeChange(time) ==
    /\ updateLoadedMeshes(time, coordinateSystem,
                          AstronomicalStates[time, <<viewerLatitude, viewerLongitude>>])
    /\ lastOp' = [op |-> "setTime", time |-> time, backward |-> DateLess(time, currentTime)]
    /\ UNCHANGED <<coordinateSystem, cameraDistance, minCameraDistance,
                   maxCameraDistance, viewerLatitude, viewerLongitude, loaded>>

\* the onLoad callback of the texture that init() waits for: the mesh is
\* created; after the earth's and the moon's the next object is set and its
\* texture asked for, after the sun's init() goes on to its end
textureLoaded ==
    /\ startup.awaiting # "none"
    /\ IF startup.awaiting = "earth"
       THEN /\ startup' = [startup EXCEPT !.awaiting = "moon", !.moon = TRUE]
            /\ meshes' = [earth |-> Zero3, earthRotation |-> 0]
            /\ UNCHANGED <<currentTime, astronomicalState, coordinateSystem, cameraTarget,
                           cameraDistance, minCameraDistance, maxCameraDistance,
                           viewerLatitude, viewerLongitude, loaded, sunLightPosition,
                           positions, lastOp>>
       ELSE IF startup.awaiting = "moon"
       THEN /\ startup' = [startup EXCEPT !.awaiting = "sun", !.sun = TRUE]
            /\ meshes' = [earth |-> meshes.earth, moon |-> Zero3,
                          earthRotation |-> meshes.earthRotation]
            /\ UNCHANGED <<currentTime, astronomicalState, coordinateSystem, cameraTarget,
                           cameraDistance, minCameraDistance, maxCameraDistance,
                           viewerLatitude, viewerLongitude, loaded, sunLightPosition,
                           positions, lastOp>>
       ELSE /\ startup' = [startup EXCEPT !.awaiting = "none"]
            /\ FinishInitOf
    /\ UNCHANGED <<probe, joystick, timeControls, cameraControls, cameraAngles>>

\* the onError callback of the texture that init() waits for.  Earth.load()
\* and Moon.load() reject: loadAstronomicalObjects() catches and returns, the
\* objects after the one that failed are never set, and init() goes on to its
\* end.  Sun.load() creates the Sun without texture and resolves.
textureFailed ==
    /\ startup.awaiting # "none"
    /\ IF startup.awaiting = "sun"
       THEN /\ startup' = [startup EXCEPT !.awaiting = "none", !.failed = "sun"]
            /\ FinishInitOf
       ELSE /\ startup' = [startup EXCEPT !.awaiting = "none", !.failed = startup.awaiting]
            /\ updateLoadedMeshes(currentTime, coordinateSystem,
                   AstronomicalStates[currentTime, <<viewerLatitude, viewerLongitude>>])
            /\ lastOp' = [op |-> "init"]
            /\ UNCHANGED <<coordinateSystem, cameraDistance, minCameraDistance,
                           maxCameraDistance, viewerLatitude, viewerLongitude, loaded>>
    /\ UNCHANGED <<probe, joystick, timeControls, cameraControls, cameraAngles>>

\* formatDateTimeForInput(date): 'YYYY-MM-DDTHH:mm', the date to the minute
formatDateTimeForInput(date) == [day |-> date.day, minute |-> date.ms \div 60000]

\* new Date(inputValue) of a value of the datetime input
DateOfInput(inputValue) == Date(inputValue.day, inputValue.minute * 60000)

\* new Date(date.getTime() + timeIncrement): the time value of a Date is a
\* whole number of milliseconds, the sum without its fraction (toward zero)
DateAfter(date, whole, fraction) ==
    IF fraction # 0 /\ Later(date, whole).day < 0 THEN Later(date, whole + 1)
    ELSE Later(date, whole)

DateAfterIncrement(date, timeIncrement) ==
    DateAfter(date, timeIncrement \div SpeedScale, timeIncrement % SpeedScale)

\* new TimeControls(onTimeChange) with new Date() = now: create() makes the
\* joystick and the CameraControls and ends with updateDisplay()
NewTimeControls(now) ==
    [created |-> TRUE, currentTime |-> now,
     datetimeInput |-> formatDateTimeForInput(now), isUpdating |-> FALSE,
     handled |-> [op |-> "constructor"]]

\* checkScene of waitForSceneLoad(), at first and then every 100 ms: once the
\* three objects of the Scene are set it resolves and init() of the
\* application constructs the TimeControls
checkScene(now) ==
    /\ ~startup.resolved
    /\ IF startup.earth /\ startup.moon /\ startup.sun
       THEN /\ startup' = [startup EXCEPT !.resolved = TRUE]
            /\ timeControls' = NewTimeControls(now)
            /\ joystick' = NewJoystick
            /\ cameraControls' = NewCameraControls(FALSE, Undefined)
       ELSE UNCHANGED <<startup, timeControls, joystick, cameraControls>>
    /\ UNCHANGED <<sceneVars, probe, cameraAngles>>

\* handleJoystickTimeChange(timeIncrement, action) with a number for
\* timeIncrement and no action
handleJoystickTimeChange(timeIncrement) ==
    /\ timeControls.created
    /\ IF timeIncrement # 0
       THEN /\ DateAfterIncrement(timeControls.currentTime, timeIncrement) \in Instants
            /\ timeControls' =
                 [timeControls EXCEPT
                    !.currentTime = DateAfterIncrement(@, timeIncrement),
                    !.datetimeInput = formatDateTimeForInput(
                        DateAfterIncrement(timeControls.currentTime, timeIncrement)),
                    !.isUpdating = FALSE,
                    !.handled = [op |-> "handleJoystickTimeChange",
                                 timeIncrement |-> Number(timeIncrement),
                                 previous |-> timeControls.currentTime,
                                 notified |-> DateAfterIncrement(timeControls.currentTime,
                                                                 timeIncrement)]]
            /\ onTimeChange(timeControls'.currentTime)
       ELSE /\ timeControls' =
                 [timeControls EXCEPT
                    !.handled = [op |-> "handleJoystickTimeChange",
                                 timeIncrement |-> Number(0),
                                 previous |-> timeControls.currentTime,
                                 notified |-> Null]]
            /\ UNCHANGED sceneVars
    /\ UNCHANGED <<probe, joystick, cameraControls, cameraAngles, startup>>

\* handleJoystickTimeChange(null, undefined)
handleJoystickTimeChangeOfNull ==
    /\ timeControls.created
    /\ timeControls' =
         [timeControls EXCEPT
            !.handled = [op |-> "handleJoystickTimeChange", timeIncrement |-> Null,
                         previous |-> timeControls.currentTime, notified |-> Null]]
    /\ UNCHANGED <<sceneVars, probe, joystick, cameraControls, cameraAngles, startup>>

\* resetToNow() with new Date() = now; also handleJoystickTimeChange(null,
\* 'reset')
resetToNow(now) ==
    /\ timeControls.created
    /\ timeControls' =
         [timeControls EXCEPT
            !.currentTime = now,
            !.datetimeInput = formatDateTimeForInput(now),
            !.isUpdating = FALSE,
            !.handled = [op |-> "resetToNow", previous |-> timeControls.currentTime,
                         notified |-> now]]
    /\ onTimeChange(now)
    /\ UNCHANGED <<probe, joystick, cameraControls, cameraAngles, startup>>

\* the 'change' listener of the datetime input: handleDateTimeInputChange
handleDateTimeInputChange(inputValue) ==
    /\ timeControls.created
    /\ IF timeControls.isUpdating
       THEN /\ timeControls' =
                 [timeControls EXCEPT
                    !.datetimeInput = inputValue,
                    !.handled = [op |-> "handleDateTimeInputChange",
                                 previous |-> timeControls.currentTime,
                                 notified |-> Null]]
            /\ UNCHANGED sceneVars
       ELSE /\ timeControls' =
                 [timeControls EXCEPT
                    !.currentTime = DateOfInput(inputValue),
                    !.datetimeInput = inputValue,
                    !.handled = [op |-> "handleDateTimeInputChange",
                                 previous |-> timeControls.currentTime,
                                 notified |-> DateOfInput(inputValue)]]
            /\ onTimeChange(DateOfInput(inputValue))
    /\ UNCHANGED <<probe, joystick, cameraControls, cameraAngles, startup>>

\* TimeControls.setTime(newTime): this.elements has no weekSlider, so the
\* assignment to this.elements.weekSlider.value throws a TypeError, after
\* currentTime and isUpdating were set and before updateDisplay()
setTimeOfControls(newTime) ==
    /\ timeControls.created
    /\ timeControls' =
         [timeControls EXCEPT
            !.currentTime = newTime,
            !.isUpdating = TRUE,
            !.handled = [op |-> "setTime", newTime |-> newTime,
                         previous |-> timeControls.currentTime,
                         notified |-> Null, error |-> "TypeError"]]
    /\ UNCHANGED <<sceneVars, probe, joystick, cameraControls, cameraAngles, startup>>

\* the increments: half a second forward and back, whole and with a fraction,
\* and what the slowest push gives in a frame of 16 ms, forward and back
Milliseconds(n) == n * SpeedScale
TimeIncrements ==
    { 0, Milliseconds(500), Milliseconds(-500), Milliseconds(500) + minSpeed * 16,
      Milliseconds(-500) + minSpeed * 16, minSpeed * 16, -(minSpeed * 16) }

\* what new Date() gives, and the times that setTime is called with
Nows == { J2000, Date(J2000.day + 59, 43200500) }

\* the values of the datetime input: those times to the minute
InputValues == { formatDateTimeForInput(t) : t \in Nows }

NextApp ==
    \/ textureLoaded
    \/ textureFailed
    \/ \E now \in Nows : checkScene(now)
    \/ \E timeIncrement \in TimeIncrements : handleJoystickTimeChange(timeIncrement)
    \/ handleJoystickTimeChangeOfNull
    \/ \E now \in Nows : resetToNow(now)
    \/ \E inputValue \in InputValues : handleDateTimeInputChange(inputValue)
    \/ \E newTime \in Nows : setTimeOfControls(newTime)

\* the answer of the browser to the request for the texture of the earth or
\* of the moon, the two that this.moon and this.sun wait for
textureAnswered ==
    /\ startup.awaiting \in {"earth", "moon"}
    /\ (textureLoaded \/ textureFailed)

\* the application with its Scene constructed at J2000.  The browser answers
\* a request for a texture, by onLoad or onError, and runs a timer that was
\* set.
InitApp == Init /\ currentTime = J2000

SpecApp ==
    /\ InitApp
    /\ [][NextApp]_vars
    /\ WF_vars(textureAnswered)
    /\ WF_vars(\E now \in Nows : checkScene(now))

(***************************************************************************)
(* The properties of the calculations, under SpecCalc.                     *)
(***************************************************************************)

\* a and b point the same way, and opposite ways: the cross product is zero
\* and the dot product positive, or negative (exact, in whole numbers)
Parallel(a, b) ==
    /\ a.y * b.z = a.z * b.y
    /\ a.z * b.x = a.x * b.z
    /\ a.x * b.y = a.y * b.x
SameDirection(a, b) == Parallel(a, b) /\ a.x * b.x + a.y * b.y + a.z * b.z > 0
OppositeDirection(a, b) == Parallel(a, b) /\ a.x * b.x + a.y * b.y + a.z * b.z < 0

\* C1: for all instants t1 < t2, at millisecond resolution and also when they
\* differ by less than a second, dateToJulianDay(t1) < dateToJulianDay(t2).
JulianDayStrictlyIncreasing ==
    (probe.fn = "dateToJulianDay" /\ DateLess(probe.t1, probe.t2))
        => JdLess(probe.jd1, probe.jd2)

\* 2000-01-01T12:00:00.000Z and 2000-01-01T12:00:00.500Z have the same Julian Day
JulianDayTie ==
    /\ probe.fn = "dateToJulianDay"
    /\ probe.t1 = J2000
    /\ probe.t2 = Later(J2000, 500)
    /\ probe.jd1 = probe.jd2

\* C2: for every instant, also before J2000, the rotation that
\* calculateEarthRotation returns lies in [0, 2 * pi).
EarthRotationInRange ==
    probe.fn = "calculateEarthRotation" => (0 <= probe.rotation /\ probe.rotation < TwoPi)

\* at 1999-12-31T00:00:00Z, a day and a half before J2000, the rotation is negative
EarthRotationNegative ==
    /\ probe.fn = "calculateEarthRotation"
    /\ probe.date = Date(J2000.day - 1, 0)
    /\ probe.days < 0
    /\ probe.rotation < 0

\* C3: for every sun, earth and moon with the sun and the moon away from the
\* earth, the illumination calculateMoonPhase returns lies in [0, 1] and is
\* (1 + cos(angle)) / 2 of the angle it returns, up to the rounding of the
\* conversion to degrees and back.
IlluminationFromAngle ==
    (probe.fn = "calculateMoonPhase" /\ probe.sun # probe.earth /\ probe.moon # probe.earth)
        => /\ probe.phase.illumination \in 0 .. FP
           /\ ~IsNaN(probe.phase.angle)
           /\ Abs(probe.phase.illumination
                  - Round(FP + Cos(DegToRad(probe.phase.angle)), 2)) <= 2

\* sun and moon both at (2, 1, 1) from the earth at the origin: the dot product
\* of the unit vectors exceeds 1, Math.acos gives NaN and so is the illumination
IlluminationNaN ==
    /\ probe.fn = "calculateMoonPhase"
    /\ probe.earth = Zero3
    /\ probe.sun = Vector3(Num(2), Num(1), Num(1))
    /\ probe.moon = Vector3(Num(2), Num(1), Num(1))
    /\ IsNaN(probe.phase.illumination)

\* C4: when the moon is opposite the sun as seen from the earth (phase angle
\* 180 degrees), calculateMoonPhase gives illumination 1.0 and 'Full Moon'.
OppositionIsFullyLit ==
    (/\ probe.fn = "calculateMoonPhase"
     /\ OppositeDirection(SubVectors(probe.sun, probe.earth),
                          SubVectors(probe.moon, probe.earth)))
        => (probe.phase.illumination = FP /\ probe.phase.name = "Full Moon")

\* sun at (1, 0, 0), moon at (-1, 0, 0): angle 180, 'Full Moon', illumination 0
OppositionIsDark ==
    /\ probe.fn = "calculateMoonPhase"
    /\ probe.earth = Zero3
    /\ probe.sun = Vector3(Num(1), 0, 0)
    /\ probe.moon = Vector3(Num(-1), 0, 0)
    /\ probe.phase.angle = Num(180)
    /\ probe.phase.name = "Full Moon"
    /\ probe.phase.illumination = 0

\* C5: when the moon is in the direction of the sun as seen from the earth
\* (phase angle 0 degrees), calculateMoonPhase gives illumination 0.0 and
\* 'New Moon'.
ConjunctionIsDark ==
    (/\ probe.fn = "calculateMoonPhase"
     /\ SameDirection(SubVectors(probe.sun, probe.earth),
                      SubVectors(probe.moon, probe.earth)))
        => (probe.phase.illumination = 0 /\ probe.phase.name = "New Moon")

\* sun at (1, 0, 0), moon at (2, 0, 0): angle 0, 'New Moon', illumination 1
ConjunctionIsFullyLit ==
    /\ probe.fn = "calculateMoonPhase"
    /\ probe.earth = Zero3
    /\ probe.sun = Vector3(Num(1), 0, 0)
    /\ probe.moon = Vector3(Num(2), 0, 0)
    /\ probe.phase.angle = 0
    /\ probe.phase.name = "New Moon"
    /\ probe.phase.illumination = FP

\* C10: checkEclipses flags a solar and a lunar eclipse exactly when the score
\* is above 0.99, so at 0.999 and not at 0.5, and the alignments it returns are
\* the scores: the dot products of the unit vectors from the earth to the sun
\* and the moon, and from the moon to the sun and the earth.
EclipseFlagsFollowScores ==
    probe.fn = "checkEclipses" =>
        /\ probe.eclipses.solar = (probe.eclipses.solarAlignment * 1000 > 990 * FP)
        /\ probe.eclipses.lunar = (probe.eclipses.lunarAlignment * 1000 > 990 * FP)
        /\ probe.eclipses.solarAlignment = Dec(0, <<999>>) => probe.eclipses.solar
        /\ probe.eclipses.lunarAlignment = Dec(0, <<999>>) => probe.eclipses.lunar
        /\ probe.eclipses.solarAlignment = Dec(0, <<500>>) => ~probe.eclipses.solar
        /\ probe.eclipses.lunarAlignment = Dec(0, <<500>>) => ~probe.eclipses.lunar
        /\ probe.eclipses.solarAlignment =
              Dot(Normalize(SubVectors(probe.sun, probe.earth)),
                  Normalize(SubVectors(probe.moon, probe.earth)))
        /\ probe.eclipses.lunarAlignment =
              Dot(Normalize(SubVectors(probe.sun, probe.moon)),
                  Normalize(SubVectors(probe.earth, probe.moon)))

\* a solar score of 0.999 flagged, with a lunar score of 0.5 not flagged
EclipseFlaggedAtScore ==
    /\ probe.fn = "checkEclipses"
    /\ probe.eclipses.solarAlignment = Dec(0, <<999>>)
    /\ probe.eclipses.solar
    /\ ~probe.eclipses.lunar

(***************************************************************************)
(* The properties of the Scene, under Spec.                                *)
(***************************************************************************)

\* exactly one of the positions pos is the zero vector: that of the anchor of
\* the coordinate system
OnlyAnchorAtOrigin(system, pos) ==
    /\ (pos.earth = Zero3) = (system = "geocentric")
    /\ (pos.sun = Zero3) = (system = "heliocentric")
    /\ (pos.moon = Zero3) = (system = "selenocentric")

\* C6: in every reachable state of the Scene and for each of the three
\* coordinate systems, exactly one of the positions of earth, moon and sun that
\* calculateCoordinateSystemPositions returns is the zero vector, and it is
\* that of the anchor: the earth, the sun, the moon.
ExactlyOneAtOrigin ==
    astronomicalState # Null =>
        /\ positions = calculateCoordinateSystemPositions(coordinateSystem, astronomicalState)
        /\ \A system \in CoordinateSystems :
              OnlyAnchorAtOrigin(system,
                  calculateCoordinateSystemPositions(system, astronomicalState))

\* the selenocentric Scene, loaded, with the moon alone at the origin
MoonAloneAtOrigin ==
    /\ loaded
    /\ astronomicalState # Null
    /\ coordinateSystem = "selenocentric"
    /\ positions.moon = Zero3
    /\ positions.earth # Zero3
    /\ positions.sun # Zero3
    /\ meshes.moon = Zero3

\* C7: from the geocentric frame, setCoordinateSystem('heliocentric') at an
\* unchanged time leaves the astronomical state as it was (the state of the
\* current time and viewer, when there was none yet), puts the sun at the
\* origin and the earth away from it.
HeliocentricSwitch ==
    [][ (/\ coordinateSystem = "geocentric"
         /\ lastOp' = [op |-> "setCoordinateSystem", system |-> "heliocentric",
                       from |-> "geocentric"])
        => /\ coordinateSystem' = "heliocentric"
           /\ currentTime' = currentTime
           /\ astronomicalState # Null => astronomicalState' = astronomicalState
           /\ astronomicalState' =
                 AstronomicalStates[currentTime, <<viewerLatitude, viewerLongitude>>]
           /\ positions'.sun = Zero3
           /\ positions'.earth # Zero3 ]_vars

\* the Scene after a switch from geocentric to heliocentric, with a state
\* before it, the sun at the origin
SwitchedToHeliocentric ==
    /\ lastOp = [op |-> "setCoordinateSystem", system |-> "heliocentric",
                 from |-> "geocentric"]
    /\ loaded
    /\ coordinateSystem = "heliocentric"
    /\ positions.sun = Zero3
    /\ positions.earth # Zero3
    /\ cameraTarget = Zero3

SetTimeForgetsHistory ==
    lastOp.op = "setTime" =>
        /\ currentTime = lastOp.time
        /\ astronomicalState =
              AstronomicalStates[lastOp.time, <<viewerLatitude, viewerLongitude>>]
        /\ positions = calculateCoordinateSystemPositions(coordinateSystem, astronomicalState)
        /\ loaded => /\ meshes.earth = positions.earth
                     /\ meshes.moon = positions.moon
                     /\ meshes.sun = positions.sun

\* a setTime that went back in time, in the loaded Scene
WentBackInTime ==
    /\ lastOp.op = "setTime"
    /\ lastOp.backward
    /\ loaded
    /\ astronomicalState # Null
    /\ astronomicalState.date = lastOp.time

\* C11: whatever latitude and longitude Scene.setViewerCoordinates is given,
\* the call is accepted and the viewer coordinates the calculation then uses
\* have the latitude in [-90, 90] and the longitude in (-180, 180].
ViewerCoordinatesInRange ==
    /\ Num(-90) <= viewerLatitude /\ viewerLatitude <= Num(90)
    /\ Num(-180) < viewerLongitude /\ viewerLongitude <= Num(180)

\* setViewerCoordinates(-95, 200) accepted, and the state calculated for the
\* viewer at latitude -95 and longitude 200
ViewerOutOfRange ==
    /\ lastOp = [op |-> "setViewerCoordinates", latitude |-> Num(-95),
                 longitude |-> Num(200)]
    /\ viewerLatitude = Num(-95)
    /\ viewerLongitude = Num(200)
    /\ astronomicalState = AstronomicalStates[currentTime, <<Num(-95), Num(200)>>]

\* C12: when the viewer is at the position of the sun, calculateSolarAngles
\* (of the calculations and of the viewer marker) returns the elevation 0 and
\* the azimuth 0, ordinary numbers and not NaN.
SolarAnglesAtTheSun ==
    (probe.fn = "calculateSolarAngles" /\ probe.viewer = probe.sun)
        => /\ probe.solar = [elevation |-> 0, azimuth |-> 0]
           /\ probe.marker = [elevation |-> 0, azimuth |-> 0]

\* the viewer marker with its mesh at (1, -2, 3), where the sun is
ViewerAtTheSun ==
    /\ probe.fn = "calculateSolarAngles"
    /\ probe.hasMesh
    /\ probe.viewer = Vector3(Num(1), Num(-2), Num(3))
    /\ probe.sun = probe.viewer
    /\ probe.solar.elevation = 0
    /\ probe.marker.azimuth = 0

\* C13: at the epoch 2000-01-01T12:00:00 UTC daysSinceJ2000 returns exactly 0,
\* and for every instant it returns dateToJulianDay of the instant minus
\* dateToJulianDay of J2000, which is the Julian Day 2451545.0.
DaysSinceEpoch ==
    probe.fn = "daysSinceJ2000" =>
        /\ probe.j2000Jd = [days |-> 2451545, secs |-> 0]
        /\ probe.date = J2000 => probe.days = 0
        /\ probe.days = (probe.jd.days - 2451545) * FP + Round(probe.jd.secs * FP, 86400)

\* the call at the epoch
DaysAtEpoch ==
    /\ probe.fn = "daysSinceJ2000"
    /\ probe.date = J2000
    /\ probe.jd = [days |-> 2451545, secs |-> 0]
    /\ probe.days = 0

\* the anchor of a coordinate system, the bodies, and the display distances
\* that calculateCoordinateSystemPositions multiplies unit vectors by
Anchor(system) ==
    CASE system = "geocentric" -> "earth"
      [] system = "heliocentric" -> "sun"
      [] system = "selenocentric" -> "moon"
Bodies == {"earth", "moon", "sun"}
DisplayDistances == {Num(15), Num(25), Num(30), Num(60), Num(80)}

\* body is at the origin plus distance times the unit vector from the anchor to
\* the body in the state, and so at that distance from the origin
PlacedFromAnchor(pos, state, anchor, body, distance) ==
    /\ pos[body] = MultiplyScalar(
                       Normalize(SubVectors(state.positions[body], state.positions[anchor])),
                       distance)
    /\ Abs(Length(pos[body]) - distance) <= FP \div 2

\* C14: in every coordinate system each of the two bodies that are not the
\* anchor is at the origin plus the unit direction from the anchor to the body
\* in the calculated state times a fixed display distance of the system and
\* the body, so its distance from the origin does not depend on the time.
BodiesPlacedFromAnchor ==
    astronomicalState # Null =>
        \A body \in Bodies \ {Anchor(coordinateSystem)} :
            \E distance \in DisplayDistances :
                PlacedFromAnchor(positions, astronomicalState, Anchor(coordinateSystem),
                                 body, distance)

\* the heliocentric Scene: the earth is 60 from the sun along the direction
\* from the sun, the moon is at the earth's place plus a vector of length 15
\* and at none of the display distances along the direction from the sun
MoonPlacedFromEarth ==
    /\ astronomicalState # Null
    /\ coordinateSystem = "heliocentric"
    /\ PlacedFromAnchor(positions, astronomicalState, "sun", "earth", Num(60))
    /\ Abs(Length(SubVectors(positions.moon, positions.earth)) - Num(15)) <= FP \div 2
    /\ \A distance \in DisplayDistances :
          ~PlacedFromAnchor(positions, astronomicalState, "sun", "moon", distance)

\* C15: after every updateAstronomicalState, whichever of setTime,
\* setCoordinateSystem and setViewerCoordinates (or init) called it, cameraTarget
\* is the projected position of the anchor of the coordinate system selected:
\* the point the frame is centered on.
CameraTargetIsAnchor ==
    astronomicalState # Null =>
        /\ cameraTarget = positions[Anchor(coordinateSystem)]
        /\ cameraTarget = Zero3

\* the camera on the sun after a change to the heliocentric system, the earth
\* elsewhere
CameraOnTheSun ==
    /\ lastOp.op = "setCoordinateSystem"
    /\ coordinateSystem = "heliocentric"
    /\ astronomicalState # Null
    /\ cameraTarget = positions.sun
    /\ cameraTarget # positions.earth

\* C16: in every reachable state Scene.coordinateSystem is 'geocentric',
\* 'heliocentric' or 'selenocentric', and a setCoordinateSystem with any other
\* value leaves coordinateSystem, minCameraDistance, maxCameraDistance,
\* cameraDistance and the astronomical state as they were.
UnknownSystemIsIgnored ==
    /\ [](coordinateSystem \in {"geocentric", "heliocentric", "selenocentric"})
    /\ [][ (/\ lastOp'.op = "setCoordinateSystem"
            /\ lastOp'.system \notin {"geocentric", "heliocentric", "selenocentric"})
           => UNCHANGED <<coordinateSystem, minCameraDistance, maxCameraDistance,
                          cameraDistance, astronomicalState>> ]_vars

\* setCoordinateSystem('ptolemaic') called in the heliocentric Scene, which is
\* still heliocentric with its camera distances
UnknownSystemRefused ==
    /\ lastOp = [op |-> "setCoordinateSystem", system |-> "ptolemaic",
                 from |-> "heliocentric"]
    /\ coordinateSystem = "heliocentric"
    /\ minCameraDistance = Num(30)
    /\ maxCameraDistance = Num(300)
    /\ cameraDistance = Num(120)
    /\ astronomicalState # Null

UnknownSystemIsGeocentric ==
    (/\ probe.fn = "calculateCoordinateSystemPositions"
     /\ probe.system \notin CoordinateSystems
     /\ probe.outcome # "running")
        => /\ probe.outcome = "returned"
           /\ probe.positions = calculateCoordinateSystemPositions("geocentric", probe.state)

\* the call with 'ptolemaic' ended by a RangeError with the stack full, no
\* positions returned
UnknownSystemOverflows ==
    /\ probe.fn = "calculateCoordinateSystemPositions"
    /\ probe.system = "ptolemaic"
    /\ probe.depth = MaxStack
    /\ probe.outcome = "RangeError"
    /\ probe.positions = NoPositions

(***************************************************************************)
(* The properties of the time joystick, under SpecJoystick.                *)
(***************************************************************************)

\* C19: after the joystick is released ('end') and with no 'move' after it, the
\* current speed becomes exactly 0 in the end and from then on no time
\* increment is given to onTimeSpeedChange, the animation frames being run.
JoystickComesToRest ==
    <>[](joystick.releasedFrom # 0)
        => <>[](joystick.currentSpeed = 0 /\ joystick.emitted.kind # "increment")

\* the joystick released while time was running, now at rest: the speed is 0
\* and the last frame gave no increment
JoystickAtRest ==
    /\ joystick.releasedFrom # 0
    /\ joystick.movingAtRelease
    /\ joystick.isPlaying
    /\ joystick.currentSpeed = 0
    /\ joystick.emitted = NoIncrement

\* C20: while the joystick slows down after it was released from a push
\* backward (direction -1), every time increment it gives is negative or zero.
ReleaseNeverAdvancesTime ==
    (joystick.releasedFrom = -1 /\ joystick.emitted.kind = "increment")
        => joystick.emitted.value <= 0

\* released from a push backward while time was running back, and the frame
\* after gave a positive increment
ReleaseAdvancesTime ==
    /\ joystick.releasedFrom = -1
    /\ joystick.movingAtRelease
    /\ joystick.direction = 1
    /\ joystick.emitted.kind = "increment"
    /\ joystick.emitted.value > 0

\* C21: whatever the order of 'start', 'move' and 'end', of the animation
\* frames and of stopAnimation, centerJoystick and resetTime,
\* requestAnimationFrame holds at most one callback of the joystick, and right
\* after stopAnimation (also as called by centerJoystick and resetTime) it
\* holds none and currentSpeed = targetSpeed = 0.
AtMostOneFramePending ==
    /\ PendingFrames(joystick) <= 1
    /\ joystick.lastEvent \in {"stopAnimation", "centerJoystick", "resetTime"}
        => /\ PendingFrames(joystick) = 0
           /\ joystick.animationFrameId = FALSE
           /\ joystick.currentSpeed = 0
           /\ joystick.targetSpeed = 0

\* stopAnimation has cancelled the frame of a running animation, the stick
\* still held: nothing is pending and the speeds are 0
StoppedWhileRunning ==
    /\ joystick.lastEvent = "stopAnimation"
    /\ joystick.cancelled
    /\ joystick.held
    /\ PendingFrames(joystick) = 0
    /\ joystick.currentSpeed = 0
    /\ joystick.targetSpeed = 0

(***************************************************************************)
(* The properties of the camera controls, under SpecCamera.                *)
(***************************************************************************)

\* C24: a CameraControls as its constructor left it has, for every field of
\* urlParams that is null or undefined (all of them when it was constructed
\* without urlParams), the default: pitch 90, bearing 0, distance 80, viewer
\* longitude 6.5 and latitude 46.1, coordinate system 'geocentric'.
AbsentParameterIsDefault ==
    (cameraControls.created /\ cameraControls.initial)
        => /\ cameraControls.urlParams.coord \in {Null, Undefined}
                => cameraControls.PARAMS.coordinateSystem = "geocentric"
           /\ cameraControls.urlParams.pitch \in {Null, Undefined}
                => cameraControls.PARAMS.pitch = Number(Num(90))
           /\ cameraControls.urlParams.bearing \in {Null, Undefined}
                => cameraControls.PARAMS.bearing = Number(0)
           /\ cameraControls.urlParams.distance \in {Null, Undefined}
                => cameraControls.PARAMS.distance = Number(Num(80))
           /\ cameraControls.urlParams.lng \in {Null, Undefined}
                => cameraControls.PARAMS.viewerPosition.x = Number(Dec(6, <<500>>))
           /\ cameraControls.urlParams.lat \in {Null, Undefined}
                => cameraControls.PARAMS.viewerPosition.y = Number(Dec(46, <<100>>))

\* constructed with every field of urlParams null: PARAMS holds the defaults
NullParametersAreDefaults ==
    /\ cameraControls.created
    /\ cameraControls.initial
    /\ cameraControls.urlParams = NullUrlParams
    /\ cameraControls.PARAMS = DefaultParams

\* C26: whatever the coordinate systems chosen, the steps of the mouse wheel
\* and the calls of CameraControls.updateDistance, Scene.cameraDistance is
\* within [minCameraDistance, maxCameraDistance] of the coordinate system of
\* the Scene.
CameraDistanceInRange ==
    /\ minCameraDistance <= cameraDistance
    /\ cameraDistance <= maxCameraDistance

\* a CameraControls constructed with the defaults, its slider moved and a
\* coordinate system chosen since, and the camera beyond the greatest distance
CameraBeyondRange ==
    /\ cameraControls.created
    /\ cameraControls.urlParams = NullUrlParams
    /\ ~cameraControls.initial
    /\ cameraDistance > maxCameraDistance

(***************************************************************************)
(* The properties of the application and its TimeControls, under SpecApp.  *)
(***************************************************************************)

\* C22: after handleJoystickTimeChange with an increment that is neither null
\* nor 0, currentTime of the TimeControls is the previous currentTime plus the
\* increment, onTimeChange was called with it and the time of the Scene is
\* that time; after an increment of null or 0, currentTime is the previous
\* one and onTimeChange was not called.
IncrementAddedAndNotified ==
    (timeControls.created /\ timeControls.handled.op = "handleJoystickTimeChange") =>
        IF timeControls.handled.timeIncrement \notin {Null, Number(0)}
        THEN /\ timeControls.handled.timeIncrement.number % SpeedScale = 0
             /\ timeControls.currentTime =
                    Later(timeControls.handled.previous,
                          timeControls.handled.timeIncrement.number \div SpeedScale)
             /\ timeControls.handled.notified = timeControls.currentTime
             /\ currentTime = timeControls.currentTime
        ELSE /\ timeControls.currentTime = timeControls.handled.previous
             /\ timeControls.handled.notified = Null

\* an increment of a whole number of milliseconds was added and the Scene
\* told, and so was an increment with a fraction of a millisecond
WholeIncrementAdded ==
    /\ timeControls.created
    /\ timeControls.handled.op = "handleJoystickTimeChange"
    /\ timeControls.handled.timeIncrement = Number(Milliseconds(500))
    /\ timeControls.currentTime = Later(timeControls.handled.previous, 500)
    /\ currentTime = timeControls.currentTime

\* C23: after TimeControls.setTime(newTime) no error was raised, currentTime
\* is newTime and the datetime input shows it, the update of the display over.
SetTimeCompletes ==
    (timeControls.created /\ timeControls.handled.op = "setTime") =>
        /\ "error" \notin DOMAIN timeControls.handled
        /\ timeControls.currentTime = timeControls.handled.newTime
        /\ timeControls.datetimeInput = formatDateTimeForInput(timeControls.handled.newTime)
        /\ ~timeControls.isUpdating

\* setTime was called with a time that the datetime input did not show
SetTimeLeftDisplay ==
    /\ timeControls.created
    /\ timeControls.handled.op = "setTime"
    /\ timeControls.currentTime = timeControls.handled.newTime
    /\ timeControls.datetimeInput # formatDateTimeForInput(timeControls.handled.newTime)

\* C25: whether the textures of the earth, the moon and the sun load or fail,
\* eventually waitForSceneLoad() has resolved and the TimeControls are
\* created.
StartupCompletes == <>(startup.resolved /\ timeControls.created)

\* the texture of the sun failed and the application started all the same
StartedWithoutSunTexture ==
    /\ startup.failed = "sun"
    /\ startup.resolved
    /\ timeControls.created

=============================================================================
